---- MODULE Spec2Model ----
(***************************************************************************)
(* Model of Code/app.py ("The Sentiment Scope"): a Streamlit script that   *)
(* loads a review table once (cached), derives language / length /         *)
(* sentiment_label, and on every script run filters the table by the       *)
(* sidebar selection and computes four KPI values and the chart data.      *)
(*                                                                         *)
(* Texts are sequences of Unicode code points.  A pandas NaN in a text     *)
(* column is the value NullText, a NaN length is NaNLen, a NaN             *)
(* sentiment_label is the string "NaN".  Floats are exact fractions        *)
(* <<numerator, denominator>>; the float NaN is the fraction <<0, 0>>.     *)
(***************************************************************************)
EXTENDS Integers, Sequences, FiniteSets, TLC

VARIABLES
    pc,                  \* position of the current script run
    cached,              \* st.cache_data holds a return value of load_data
    cache_val,           \* that value
    df,                  \* script variable df (line 41)
    lang_filter,         \* line 51
    selected_sentiments, \* line 58
    search_query,        \* line 65
    filtered_df,         \* line 68..76
    kpi,                 \* values of lines 85..93
    chart_data,          \* line 103
    st_error,            \* st.error was called in this run (line 44)
    exception,           \* exception that ended this run, "none" if none
    executed,            \* steps this run has executed
    load_failed,         \* this run's load did not obtain the source table
    enriched0,           \* history: the table as enriched when it was cached
    narrowed,            \* history: an earlier run showed a proper subset
    text_in,             \* classifier harness: the input text
    language_out,        \* classifier harness: the result
    idem_table,          \* filter harness: the enriched table
    idem_sel,            \* filter harness: the selection
    idem_once,           \* filter harness: filter applied once
    idem_twice,          \* filter harness: filter applied to idem_once
    idem_stage

vars == <<pc, cached, cache_val, df, lang_filter, selected_sentiments,
          search_query, filtered_df, kpi, chart_data, st_error, exception,
          executed, load_failed, enriched0, narrowed, text_in, language_out,
          idem_table, idem_sel, idem_once, idem_twice, idem_stage>>

appVars == <<pc, cached, cache_val, df, lang_filter, selected_sentiments,
             search_query, filtered_df, kpi, chart_data, st_error, exception,
             executed, load_failed, enriched0, narrowed>>

classifyVars == <<text_in, language_out>>

idemVars == <<idem_table, idem_sel, idem_once, idem_twice, idem_stage>>

----------------------------------------------------------------------------
(* Bounds *)

MaxRows == 2

MaxTextLen == 2

MaxIdemRows == 2

----------------------------------------------------------------------------
(* Values *)

NullText == <<-1>>

NaNLen == -1

ArabicLo == 1536

ArabicHi == 1791

Dot == 46

LParen == 40

\* review_content values of the source table: NaN, "aB", and U+062E
ContentTexts == {NullText, <<97, 66>>, <<1582>>}

\* label values of the source table; 2 stands for a code outside {-1, 0, 1}
Labels == {-1, 0, 1, 2}

RawRows == [review_content : ContentTexts, label : Labels]

RECURSIVE SeqsUpTo(_, _)
SeqsUpTo(S, n) ==
    IF n = 0 THEN {<<>>}
    ELSE LET shorter == SeqsUpTo(S, n - 1)
         IN  shorter \cup {Append(s, x) : s \in {t \in shorter : Len(t) = n - 1}, x \in S}

RawTables == SeqsUpTo(RawRows, MaxRows)

LanguageOptions == {"All", "English", "Arabic"}

SentimentOptions == {"Positive", "Neutral", "Negative"}

\* text_input values: "", "b", "Ab", "." and "("
SearchTexts == {<<>>, <<98>>, <<65, 98>>, <<Dot>>, <<LParen>>}

\* classifier harness inputs: 'A', 'a', and code points at and around the
\* two ends of the Arabic block
ClassifyAlphabet == {65, 97, 1535, 1536, 1700, 1791, 1792}

ClassifyInputs == {NullText} \cup SeqsUpTo(ClassifyAlphabet, MaxTextLen)

----------------------------------------------------------------------------
(* load_data: the derived columns *)

isna(text) == text = NullText

detect_language_all(text) ==
    IF isna(text) THEN "Unknown"
    ELSE IF \A i \in 1..Len(text) : ArabicLo <= text[i] /\ text[i] <= ArabicHi
         THEN "Arabic"
         ELSE "English"

detect_language(text) ==
    IF isna(text) THEN "Unknown"
    ELSE IF \E i \in 1..Len(text) : ArabicLo <= text[i] /\ text[i] <= ArabicHi
         THEN "Arabic"
         ELSE "English"

str_len(text) == IF isna(text) THEN NaNLen ELSE Len(text)

label_map(label) ==
    CASE label = -1 -> "Negative"
      [] label = 0  -> "Neutral"
      [] label = 1  -> "Positive"
      [] OTHER      -> "NaN"

EnrichRow(r) ==
    [review_content  |-> r.review_content,
     label           |-> r.label,
     language        |-> detect_language(r.review_content),
     length          |-> str_len(r.review_content),
     sentiment_label |-> label_map(r.label)]

Enrich(rows) == [i \in 1..Len(rows) |-> EnrichRow(rows[i])]

\* A text column read with no string in it is a float64 column, and the
\* .str accessor of line 33 raises AttributeError on it.
StrAccessorRaises(rows) ==
    /\ Len(rows) > 0
    /\ \A i \in 1..Len(rows) : isna(rows[i].review_content)

----------------------------------------------------------------------------
(* Apply Filters *)

\* re.IGNORECASE folding of one code point (ASCII letters)
Fold(c) == IF 65 <= c /\ c <= 90 THEN c + 32 ELSE c

\* re.compile(pat): a "(" that is never closed is an error
RegexError(pat) == \E i \in 1..Len(pat) : pat[i] = LParen

\* one pattern element against one character: "." is any character but
\* a newline, anything else is a literal compared under IGNORECASE
RegexElemMatches(p, c) ==
    IF p = Dot THEN c # 10 ELSE Fold(p) = Fold(c)

\* pat.search(text) for a pattern of literals and dots
RegexSearch(pat, text) ==
    \E off \in 0..(Len(text) - Len(pat)) :
        \A i \in 1..Len(pat) : RegexElemMatches(pat[i], text[off + i])

\* Series.str.contains(pat, case=False, na=False), one element
str_contains(text, pat) ==
    IF isna(text) THEN FALSE ELSE RegexSearch(pat, text)

LanguageFilterAlways(rows, lang) ==
    SelectSeq(rows, LAMBDA r : r.language = lang)

LanguageFilter(rows, lang) ==
    IF lang # "All"
    THEN SelectSeq(rows, LAMBDA r : r.language = lang)
    ELSE rows

SentimentFilterSkipEmpty(rows, sel) ==
    IF sel = {} THEN rows
    ELSE SelectSeq(rows, LAMBDA r : r.sentiment_label \in sel)

SentimentFilterNotUnselected(rows, sel) ==
    SelectSeq(rows, LAMBDA r : r.sentiment_label \notin (SentimentOptions \ sel))

SentimentFilter(rows, sel) ==
    SelectSeq(rows, LAMBDA r : r.sentiment_label \in sel)

SearchFilterSkipFirst(rows, q) ==
    IF q # <<>> /\ rows # <<>>
    THEN SelectSeq(Tail(rows), LAMBDA r : str_contains(r.review_content, q))
    ELSE rows

SearchFilter(rows, q) ==
    IF q # <<>>
    THEN SelectSeq(rows, LAMBDA r : str_contains(r.review_content, q))
    ELSE rows

\* line 76 raises re.error before any row is looked at
SearchRaises(q) == q # <<>> /\ RegexError(q)

\* lines 68..76: the rows filtered_df holds when the block ends, and
\* whether it ended by raising
ApplyFiltersTo(rows, lang, sel, q) ==
    LET afterSentiment == SentimentFilter(LanguageFilter(rows, lang), sel)
    IN  IF SearchRaises(q)
        THEN [raised |-> TRUE, rows |-> afterSentiment]
        ELSE [raised |-> FALSE, rows |-> SearchFilter(afterSentiment, q)]

----------------------------------------------------------------------------
(* Top KPI Cards and chart data *)

\* len(filtered_df[filtered_df['label'] == 1])
CountPositive(rows) == Len(SelectSeq(rows, LAMBDA r : r.label = 1))

\* len(filtered_df[filtered_df['language'] == 'Arabic'])
CountArabic(rows) == Len(SelectSeq(rows, LAMBDA r : r.language = "Arabic"))

\* the number of values mean() does not skip
CountLength(rows) == Len(SelectSeq(rows, LAMBDA r : r.length # NaNLen))

CountLabel(rows, l) == Len(SelectSeq(rows, LAMBDA r : r.sentiment_label = l))

RECURSIVE SumLength(_)
SumLength(rows) ==
    IF rows = <<>> THEN 0
    ELSE (IF Head(rows).length = NaNLen THEN 0 ELSE Head(rows).length)
         + SumLength(Tail(rows))

\* Series.mean(): NaN values are skipped; the mean of no value is NaN
mean_length(rows) ==
    <<SumLength(rows), CountLength(rows)>>

Zero == <<0, 1>>

IsNaN(x) == x[2] = 0

\* lines 84..94 in order; "raised" names the exception that ends them
KPICardsUnguarded(rows) ==
    LET n == Len(rows)
        avg == mean_length(rows)
    IN  IF n = 0
        THEN [total |-> 0, positive_pct |-> <<0, 0>>, avg_len |-> Zero,
              avg_chars |-> 0, arabic_pct |-> Zero,
              raised |-> "ZeroDivisionError"]
        ELSE [total |-> n,
              positive_pct |-> <<100 * CountPositive(rows), n>>,
              avg_len |-> avg,
              avg_chars |-> IF IsNaN(avg) THEN 0 ELSE avg[1] \div avg[2],
              arabic_pct |-> IF IsNaN(avg) THEN Zero
                             ELSE <<100 * CountArabic(rows), n>>,
              raised |-> IF IsNaN(avg) THEN "ValueError" ELSE "none"]

KPICards(rows) ==
    LET n == Len(rows)
        positive == IF n > 0
                    THEN <<100 * CountPositive(rows), n>>
                    ELSE Zero
        avg == IF n > 0 THEN mean_length(rows) ELSE Zero
        arabic == IF n > 0
                  THEN <<100 * CountArabic(rows), n>>
                  ELSE Zero
    IN  IF IsNaN(avg)
        THEN \* int(avg_len) on line 91 raises; line 93 is never reached
             [total |-> n, positive_pct |-> positive, avg_len |-> avg,
              avg_chars |-> 0, arabic_pct |-> Zero, raised |-> "ValueError"]
        ELSE [total |-> n, positive_pct |-> positive, avg_len |-> avg,
              avg_chars |-> avg[1] \div avg[2], arabic_pct |-> arabic,
              raised |-> "none"]

NoKPI ==
    [total |-> 0, positive_pct |-> Zero, avg_len |-> Zero, avg_chars |-> 0,
     arabic_pct |-> Zero, raised |-> "none"]

\* Series.value_counts(): the count of every label present, NaN dropped
value_counts(rows) ==
    LET present == {rows[i].sentiment_label : i \in 1..Len(rows)} \ {"NaN"}
    IN  [l \in present |-> CountLabel(rows, l)]

NoChart == [l \in {} |-> 0]

----------------------------------------------------------------------------
(* The script *)

NoFrame == [kind |-> "unset", rows |-> <<>>]

NoneFrame == [kind |-> "None", rows |-> <<>>]

Frame(rows) == [kind |-> "frame", rows |-> rows]

Init ==
    /\ pc = "load"
    /\ cached = FALSE
    /\ cache_val = NoFrame
    /\ df = NoFrame
    /\ lang_filter = "All"
    /\ selected_sentiments = {}
    /\ search_query = <<>>
    /\ filtered_df = <<>>
    /\ kpi = NoKPI
    /\ chart_data = NoChart
    /\ st_error = FALSE
    /\ exception = "none"
    /\ executed = {}
    /\ load_failed = FALSE
    /\ enriched0 = NoFrame
    /\ narrowed = FALSE
    /\ text_in = NullText
    /\ language_out = "unset"
    /\ idem_table = <<>>
    /\ idem_sel = [lang |-> "All", sentiments |-> {}, search |-> <<>>]
    /\ idem_once = [raised |-> FALSE, rows |-> <<>>]
    /\ idem_twice = [raised |-> FALSE, rows |-> <<>>]
    /\ idem_stage = 0

\* line 41 when st.cache_data already holds a value
LoadDataCached ==
    /\ pc = "load"
    /\ cached
    /\ df' = cache_val
    /\ load_failed' = (cache_val.kind = "None")
    /\ pc' = "guard"
    /\ UNCHANGED <<cached, cache_val, lang_filter, selected_sentiments,
                   search_query, filtered_df, kpi, chart_data, st_error,
                   exception, executed, enriched0, narrowed>>

\* lines 16..19: the file is not there; None is returned and cached
LoadDataMissing ==
    /\ pc = "load"
    /\ ~cached
    /\ cached' = TRUE
    /\ cache_val' = NoneFrame
    /\ enriched0' = NoneFrame
    /\ df' = NoneFrame
    /\ load_failed' = TRUE
    /\ pc' = "guard"
    /\ UNCHANGED <<lang_filter, selected_sentiments, search_query,
                   filtered_df, kpi, chart_data, st_error, exception,
                   executed, narrowed>>

\* line 17 raises something other than FileNotFoundError (the path is a
\* directory, is unreadable, or holds no parsable table): nothing is
\* cached and the exception ends the run at line 41
LoadDataUnreadable ==
    /\ pc = "load"
    /\ ~cached
    /\ load_failed' = TRUE
    /\ exception' = "read_csv"
    /\ pc' = "crashed"
    /\ UNCHANGED <<cached, cache_val, df, lang_filter, selected_sentiments,
                   search_query, filtered_df, kpi, chart_data, st_error,
                   executed, enriched0, narrowed>>

\* lines 17..39 on a table that was read
LoadDataRead ==
    /\ pc = "load"
    /\ ~cached
    /\ \E t \in RawTables :
         IF StrAccessorRaises(t)
         THEN /\ exception' = "AttributeError"
              /\ pc' = "crashed"
              /\ executed' = executed \cup {"enrich"}
              /\ UNCHANGED <<cached, cache_val, df, enriched0>>
         ELSE /\ cached' = TRUE
              /\ cache_val' = Frame(Enrich(t))
              /\ enriched0' = Frame(Enrich(t))
              /\ df' = Frame(Enrich(t))
              /\ executed' = executed \cup {"enrich"}
              /\ pc' = "guard"
              /\ UNCHANGED exception
    /\ load_failed' = FALSE
    /\ UNCHANGED <<lang_filter, selected_sentiments, search_query,
                   filtered_df, kpi, chart_data, st_error, narrowed>>

LoadGuardNoStop ==
    /\ pc = "guard"
    /\ st_error' = (df.kind = "None")
    /\ pc' = "widgets"
    /\ UNCHANGED <<cached, cache_val, df, lang_filter, selected_sentiments,
                   search_query, filtered_df, kpi, chart_data, exception,
                   executed, load_failed, enriched0, narrowed>>

\* lines 43..45
LoadGuard ==
    /\ pc = "guard"
    /\ IF df.kind = "None"
       THEN st_error' = TRUE /\ pc' = "stopped"
       ELSE st_error' = st_error /\ pc' = "widgets"
    /\ UNCHANGED <<cached, cache_val, df, lang_filter, selected_sentiments,
                   search_query, filtered_df, kpi, chart_data, exception,
                   executed, load_failed, enriched0, narrowed>>

\* lines 48..65: the widgets return the user's current selection
SidebarControls ==
    /\ pc = "widgets"
    /\ lang_filter' \in LanguageOptions
    /\ selected_sentiments' \in SUBSET SentimentOptions
    /\ search_query' \in SearchTexts
    /\ pc' = "filter"
    /\ UNCHANGED <<cached, cache_val, df, filtered_df, kpi, chart_data,
                   st_error, exception, executed, load_failed, enriched0,
                   narrowed>>

\* the filter block written without df.copy() against a shared cached
\* object: the cached table is narrowed in place
ApplyFiltersInPlace ==
    /\ pc = "filter"
    /\ IF df.kind # "frame"
       THEN /\ exception' = "AttributeError"
            /\ pc' = "crashed"
            /\ UNCHANGED <<filtered_df, df, cache_val>>
       ELSE LET r == ApplyFiltersTo(df.rows, lang_filter,
                                    selected_sentiments, search_query)
            IN  /\ filtered_df' = r.rows
                /\ df' = Frame(r.rows)
                /\ cache_val' = Frame(r.rows)
                /\ exception' = IF r.raised THEN "re.error" ELSE "none"
                /\ pc' = IF r.raised THEN "crashed" ELSE "kpi"
    /\ executed' = executed \cup {"filter"}
    /\ UNCHANGED <<cached, lang_filter, selected_sentiments,
                   search_query, kpi, chart_data, st_error, load_failed,
                   enriched0, narrowed>>

\* lines 68..76
ApplyFilters ==
    /\ pc = "filter"
    /\ IF df.kind # "frame"
       THEN /\ exception' = "AttributeError"
            /\ pc' = "crashed"
            /\ UNCHANGED filtered_df
       ELSE LET r == ApplyFiltersTo(df.rows, lang_filter,
                                    selected_sentiments, search_query)
            IN  /\ filtered_df' = r.rows
                /\ exception' = IF r.raised THEN "re.error" ELSE "none"
                /\ pc' = IF r.raised THEN "crashed" ELSE "kpi"
    /\ executed' = executed \cup {"filter"}
    /\ UNCHANGED <<cached, cache_val, df, lang_filter, selected_sentiments,
                   search_query, kpi, chart_data, st_error, load_failed,
                   enriched0, narrowed>>

\* lines 79..94
TopKPICards ==
    /\ pc = "kpi"
    /\ kpi' = KPICards(filtered_df)
    /\ exception' = kpi'.raised
    /\ pc' = IF kpi'.raised = "none" THEN "charts" ELSE "crashed"
    /\ executed' = executed \cup {"kpi"}
    /\ UNCHANGED <<cached, cache_val, df, lang_filter, selected_sentiments,
                   search_query, filtered_df, chart_data, st_error,
                   load_failed, enriched0, narrowed>>

\* lines 96..133: the two charts and the review explorer
Charts ==
    /\ pc = "charts"
    /\ chart_data' = value_counts(filtered_df)
    /\ pc' = "done"
    /\ executed' = executed \cup {"charts"}
    /\ UNCHANGED <<cached, cache_val, df, lang_filter, selected_sentiments,
                   search_query, filtered_df, kpi, st_error, exception,
                   load_failed, enriched0, narrowed>>

\* a widget changes (or the page is reloaded): the script runs again from
\* line 1 with fresh script variables; only the cache is kept
Rerun ==
    /\ pc # "load"
    /\ pc' = "load"
    /\ df' = NoFrame
    /\ lang_filter' = "All"
    /\ selected_sentiments' = {}
    /\ search_query' = <<>>
    /\ filtered_df' = <<>>
    /\ kpi' = NoKPI
    /\ chart_data' = NoChart
    /\ st_error' = FALSE
    /\ exception' = "none"
    /\ executed' = {}
    /\ load_failed' = FALSE
    /\ narrowed' = (narrowed \/ ("filter" \in executed /\ Len(filtered_df) < Len(df.rows)))
    /\ UNCHANGED <<cached, cache_val, enriched0>>

Next ==
    \/ (LoadDataCached /\ UNCHANGED <<classifyVars, idemVars>>)
    \/ (LoadDataMissing /\ UNCHANGED <<classifyVars, idemVars>>)
    \/ (LoadDataUnreadable /\ UNCHANGED <<classifyVars, idemVars>>)
    \/ (LoadDataRead /\ UNCHANGED <<classifyVars, idemVars>>)
    \/ (LoadGuard /\ UNCHANGED <<classifyVars, idemVars>>)
    \/ (SidebarControls /\ UNCHANGED <<classifyVars, idemVars>>)
    \/ (ApplyFilters /\ UNCHANGED <<classifyVars, idemVars>>)
    \/ (TopKPICards /\ UNCHANGED <<classifyVars, idemVars>>)
    \/ (Charts /\ UNCHANGED <<classifyVars, idemVars>>)
    \/ (Rerun /\ UNCHANGED <<classifyVars, idemVars>>)

Spec == Init /\ [][Next]_vars

----------------------------------------------------------------------------
(* The language classifier applied to single texts *)

InitClassify ==
    /\ pc = "load"
    /\ cached = FALSE
    /\ cache_val = NoFrame
    /\ df = NoFrame
    /\ lang_filter = "All"
    /\ selected_sentiments = {}
    /\ search_query = <<>>
    /\ filtered_df = <<>>
    /\ kpi = NoKPI
    /\ chart_data = NoChart
    /\ st_error = FALSE
    /\ exception = "none"
    /\ executed = {}
    /\ load_failed = FALSE
    /\ enriched0 = NoFrame
    /\ narrowed = FALSE
    /\ text_in \in ClassifyInputs
    /\ language_out = "unset"
    /\ idem_table = <<>>
    /\ idem_sel = [lang |-> "All", sentiments |-> {}, search |-> <<>>]
    /\ idem_once = [raised |-> FALSE, rows |-> <<>>]
    /\ idem_twice = [raised |-> FALSE, rows |-> <<>>]
    /\ idem_stage = 0

\* line 30, one element of the column
Classify ==
    /\ language_out = "unset"
    /\ language_out' = detect_language(text_in)
    /\ UNCHANGED <<text_in, appVars, idemVars>>

NextText ==
    /\ language_out # "unset"
    /\ text_in' \in ClassifyInputs
    /\ language_out' = "unset"
    /\ UNCHANGED <<appVars, idemVars>>

NextClassify == Classify \/ NextText

SpecClassify == InitClassify /\ [][NextClassify]_vars

----------------------------------------------------------------------------
(* The filter block applied to its own result *)

IdemTables ==
    {Enrich(t) : t \in {u \in SeqsUpTo(RawRows, MaxIdemRows) : ~StrAccessorRaises(u)}}

InitIdem ==
    /\ pc = "load"
    /\ cached = FALSE
    /\ cache_val = NoFrame
    /\ df = NoFrame
    /\ lang_filter = "All"
    /\ selected_sentiments = {}
    /\ search_query = <<>>
    /\ filtered_df = <<>>
    /\ kpi = NoKPI
    /\ chart_data = NoChart
    /\ st_error = FALSE
    /\ exception = "none"
    /\ executed = {}
    /\ load_failed = FALSE
    /\ enriched0 = NoFrame
    /\ narrowed = FALSE
    /\ text_in = NullText
    /\ language_out = "unset"
    /\ idem_table \in IdemTables
    /\ idem_sel = [lang |-> "All", sentiments |-> {}, search |-> <<>>]
    /\ idem_once = [raised |-> FALSE, rows |-> <<>>]
    /\ idem_twice = [raised |-> FALSE, rows |-> <<>>]
    /\ idem_stage = 0

\* lines 68..76 on the enriched table
FilterOnce ==
    /\ idem_stage = 0
    /\ \E l \in LanguageOptions, ss \in SUBSET SentimentOptions, q \in SearchTexts :
         /\ idem_sel' = [lang |-> l, sentiments |-> ss, search |-> q]
         /\ idem_once' = ApplyFiltersTo(idem_table, l, ss, q)
    /\ idem_stage' = 1
    /\ UNCHANGED <<idem_table, idem_twice, appVars, classifyVars>>

\* lines 68..76 on the subset, same selection
FilterTwice ==
    /\ idem_stage = 1
    /\ idem_twice' = ApplyFiltersTo(idem_once.rows, idem_sel.lang,
                                    idem_sel.sentiments, idem_sel.search)
    /\ idem_stage' = 2
    /\ UNCHANGED <<idem_table, idem_sel, idem_once, appVars, classifyVars>>

NextIdem == FilterOnce \/ FilterTwice

SpecIdem == InitIdem /\ [][NextIdem]_vars

----------------------------------------------------------------------------
(* Properties *)

InDomain(r) == r.label \in {-1, 0, 1}

FilterRan == "filter" \in executed /\ df.kind = "frame"

FilterCompleted == FilterRan /\ exception # "re.error"

\* the rows the search step receives
BeforeSearch ==
    SentimentFilter(LanguageFilter(df.rows, lang_filter), selected_sentiments)

\* q occurs in text as a literal substring, letters compared without case
LiteralContains(text, q) ==
    /\ ~isna(text)
    /\ \E off \in 0..(Len(text) - Len(q)) :
         \A i \in 1..Len(q) : Fold(q[i]) = Fold(text[off + i])

IsZero(x) == x[1] = 0 /\ x[2] # 0

FullSelection ==
    /\ lang_filter = "All"
    /\ selected_sentiments = SentimentOptions
    /\ search_query = <<>>

\* C1: the search step keeps every row when the search text is empty, and
\* otherwise keeps exactly the rows whose review_content is non-null and
\* contains the search text as a literal substring, case-insensitively;
\* it never raises.
C1_SearchIsLiteralSubstring ==
    FilterRan =>
        /\ exception = "none" \/ exception = "ValueError"
        /\ filtered_df =
             IF search_query = <<>> THEN BeforeSearch
             ELSE SelectSeq(BeforeSearch,
                            LAMBDA r : LiteralContains(r.review_content, search_query))

\* C2 (as stated): with language "All", all three sentiments and an empty
\* search text, the filtered view is the whole enriched table.
C2_FullSelectionKeepsEveryRow ==
    (FilterRan /\ FullSelection) => filtered_df = df.rows

\* C2 (amended): with language "All", all three sentiments and an empty
\* search text, the filtered view is exactly the rows of the enriched table
\* whose label is -1, 0 or 1, in table order; rows with null text are kept.
C2_FullSelectionKeepsLabelledRows ==
    (FilterRan /\ FullSelection) =>
        /\ exception # "re.error"
        /\ filtered_df = SelectSeq(df.rows, InDomain)

C2_Witness ==
    /\ FilterRan
    /\ FullSelection
    /\ Len(df.rows) = 2
    /\ filtered_df = df.rows
    /\ \E i \in 1..Len(filtered_df) : filtered_df[i].language = "Unknown"

\* C3: average_length is the mean of the defined lengths of the filtered
\* view, and it is 0, with nothing raised, when the view is empty or has no
\* defined length.
C3_AverageLengthZeroWhenUndefined ==
    "kpi" \in executed =>
        LET sum == SumLength(filtered_df)
            cnt == CountLength(filtered_df)
        IN  /\ exception = "none"
            /\ IF cnt = 0 THEN IsZero(kpi.avg_len)
               ELSE /\ kpi.avg_len[2] # 0
                    /\ kpi.avg_len[1] * cnt = sum * kpi.avg_len[2]

\* C4: when the filtered view is empty, total, positive_percentage,
\* average_length and arabic_percentage are all 0 and the KPI step raises
\* nothing.
C4_EmptySubsetAllZero ==
    (FilterCompleted /\ filtered_df = <<>>) =>
        /\ exception = "none"
        /\ kpi.raised = "none"
        /\ "kpi" \in executed =>
             /\ kpi.total = 0
             /\ IsZero(kpi.positive_pct)
             /\ IsZero(kpi.avg_len)
             /\ kpi.avg_chars = 0
             /\ IsZero(kpi.arabic_pct)

C4_Witness ==
    /\ pc = "done"
    /\ Len(df.rows) > 0
    /\ filtered_df = <<>>
    /\ selected_sentiments # {}
    /\ kpi.total = 0

\* C5: with an empty sentiment set the filtered view is empty, whatever the
\* table, the language choice and the search text.
C5_EmptySentimentSetEmptySubset ==
    (FilterRan /\ selected_sentiments = {}) => filtered_df = <<>>

C5_Witness ==
    /\ FilterRan
    /\ selected_sentiments = {}
    /\ Len(df.rows) > 0
    /\ lang_filter = "All"
    /\ search_query = <<>>
    /\ filtered_df = <<>>

\* C6: after a failed load the run reports an error and halts; no
\* enrichment, filter, KPI or chart step runs in it.
C6_FailedLoadHalts ==
    load_failed =>
        /\ pc \in {"guard", "stopped", "crashed"}
        /\ executed = {}
        /\ filtered_df = <<>>
        /\ pc = "stopped" => st_error
        /\ pc = "crashed" => exception = "read_csv"

C6_Witness ==
    /\ load_failed
    /\ pc = "stopped"
    /\ st_error
    /\ cached

\* C7: the classifier returns "Unknown" exactly for the null text, and for
\* a non-null text "Arabic" exactly when some character lies in
\* U+0600..U+06FF and "English" otherwise.
C7_ClassifierContract ==
    language_out # "unset" =>
        LET hasArabic == \E i \in 1..Len(text_in) :
                             1536 <= text_in[i] /\ text_in[i] <= 1791
        IN  /\ language_out \in {"Arabic", "English", "Unknown"}
            /\ language_out = "Unknown" <=> text_in = NullText
            /\ text_in # NullText =>
                 /\ language_out = "Arabic" <=> hasArabic
                 /\ language_out = "English" <=> ~hasArabic

C7_Witness ==
    /\ language_out = "Arabic"
    /\ \E i \in 1..Len(text_in) : text_in[i] = 1791
    /\ \E i \in 1..Len(text_in) : text_in[i] = 97

\* C8: filtering a filtered subset again with the same selection returns
\* the identical subset.
C8_FilterIdempotent ==
    idem_stage = 2 => idem_twice = idem_once

C8_Witness ==
    /\ idem_stage = 2
    /\ ~idem_once.raised
    /\ idem_sel.search # <<>>
    /\ idem_sel.lang # "All"
    /\ Len(idem_once.rows) > 0
    /\ Len(idem_once.rows) < Len(idem_table)
    /\ idem_twice = idem_once

\* C9: once cached, the enriched table never changes; every run's df is
\* that table, and a completed filter step leaves the filter of that table
\* under the current selection alone.
C9_EnrichedTableNeverMutated ==
    /\ [](/\ cached => cache_val = enriched0
          /\ df.kind # "unset" => df = enriched0
          /\ FilterCompleted =>
               filtered_df = SearchFilter(
                   SentimentFilter(LanguageFilter(enriched0.rows, lang_filter),
                                   selected_sentiments),
                   search_query))
    /\ [][cached => (cached' /\ cache_val' = cache_val /\ enriched0' = enriched0)]_vars

C9_Witness ==
    /\ narrowed
    /\ pc = "done"
    /\ Len(df.rows) > 0
    /\ filtered_df = df.rows
    /\ df = enriched0

\* C10: every row of the filtered view has a defined sentiment_label that
\* is in the selected set, so no row with a label outside {-1, 0, 1} is in
\* any view, and the sentiment counts of the view add up to its row count.
C10_ViewRowsHaveSelectedLabel ==
    FilterRan =>
        /\ \A i \in 1..Len(filtered_df) :
             /\ filtered_df[i].sentiment_label \in selected_sentiments
             /\ filtered_df[i].sentiment_label \in SentimentOptions
             /\ InDomain(filtered_df[i])
        /\ "charts" \in executed =>
             /\ DOMAIN chart_data \subseteq SentimentOptions
             /\ Len(filtered_df) =
                  (IF "Positive" \in DOMAIN chart_data THEN chart_data["Positive"] ELSE 0)
                  + (IF "Neutral" \in DOMAIN chart_data THEN chart_data["Neutral"] ELSE 0)
                  + (IF "Negative" \in DOMAIN chart_data THEN chart_data["Negative"] ELSE 0)

C10_Witness ==
    /\ "charts" \in executed
    /\ \E i \in 1..Len(df.rows) : ~InDomain(df.rows[i])
    /\ Len(filtered_df) > 0
    /\ Len(filtered_df) < Len(df.rows)
    /\ selected_sentiments = SentimentOptions

====
